---------------------------- MODULE Spec2Model ----------------------------
(***************************************************************************)
(* Model of efpsserverbot.py: the /servers command handler, the fetch of   *)
(* the server list, the batched Steam name lookup, the player-name         *)
(* precedence and the size-bounded embed layout.                           *)
(*                                                                         *)
(* Text is modelled by strings, so len(), slicing and concatenation are    *)
(* the real ones.  The two non-ASCII characters of the source's literals   *)
(* (the bullet and the em dash, one character each for Python's len) and   *)
(* the backquote are written "*", "-" and "'": one character each, so      *)
(* every length is the source's.  A JSON object is a record whose DOMAIN   *)
(* is the set of keys present; a JSON value that is not an object is the   *)
(* record [scalar |-> v].                                                  *)
(***************************************************************************)
EXTENDS Integers, Sequences, FiniteSets, TLC

(***************************************************************************)
(* Program constants.                                                      *)
(***************************************************************************)
FIELD_VALUE_MAX == 1024
EMBED_TOTAL_MAX == 6000
CHUNK == 100
FIELD_NAME_MAX == 256
TRUNC_RESERVE == 30
PACK_PADDING == 10
STEAM_TAIL == 8

Title == "SF Servers"
Description == "Live stats for SF HL2DM servers."
NoDataMessage == "No servers available or failed to fetch data."
TooLargeMessage == "Result too large for a single embed."
NameKeys == <<"name", "playerName", "nick", "username", "displayName", "persona", "personaname">>

(***************************************************************************)
(* Python helpers: dict.get, truthiness, slices.                           *)
(***************************************************************************)
Has(d, key) == key \in DOMAIN d

\* p.get(key) is truthy: the key is present and its (string) value is not "".
Truthy(d, key) == Has(d, key) /\ d[key] # ""

Min(a, b) == IF a < b THEN a ELSE b
Max(a, b) == IF a > b THEN a ELSE b

\* s[:n]
Prefix(s, n) == SubSeq(s, 1, Min(n, Len(s)))

\* s[-n:]
Suffix(s, n) == SubSeq(s, Max(1, Len(s) - n + 1), Len(s))

\* f"{v}" of a JSON number that may be absent: p.get(key, "n/a")
NumOrNA(p, key) == IF Has(p, key) THEN ToString(p[key]) ELSE "n/a"

(***************************************************************************)
(* choose_player_name                                                      *)
(***************************************************************************)
\* str(p.get("steamId") or p.get("steam_id") or "")
SteamIdOf(p) ==
    IF Truthy(p, "steamId") THEN p["steamId"]
    ELSE IF Truthy(p, "steam_id") THEN p["steam_id"]
    ELSE ""

RECURSIVE FirstLocalName(_, _)
\* the for loop over the name keys, from position k on: "" when none is truthy
FirstLocalName(p, k) ==
    IF k > Len(NameKeys) THEN ""
    ELSE IF Truthy(p, NameKeys[k]) THEN p[NameKeys[k]]
    ELSE FirstLocalName(p, k + 1)

\* mutant: the resolved name is tried before the record's own name fields
choose_player_name_m(p, map) ==
    IF SteamIdOf(p) # "" /\ SteamIdOf(p) \in DOMAIN map THEN map[SteamIdOf(p)]
    ELSE IF FirstLocalName(p, 1) # "" THEN FirstLocalName(p, 1)
    ELSE IF SteamIdOf(p) # "" THEN "steam:" \o Suffix(SteamIdOf(p), STEAM_TAIL)
    ELSE IF Has(p, "userId") THEN "#" \o ToString(p["userId"])
    ELSE "Unknown"

choose_player_name(p, map) ==
    IF FirstLocalName(p, 1) # "" THEN FirstLocalName(p, 1)
    ELSE IF SteamIdOf(p) # ""
         THEN IF SteamIdOf(p) \in DOMAIN map
              THEN map[SteamIdOf(p)]
              ELSE "steam:" \o Suffix(SteamIdOf(p), STEAM_TAIL)
    ELSE IF Has(p, "userId") THEN "#" \o ToString(p["userId"])
    ELSE "Unknown"

(***************************************************************************)
(* compact_player_line                                                     *)
(***************************************************************************)
team_map == [k \in {"0", "1", "2", "3"} |->
                IF k = "2" THEN "Rebel" ELSE IF k = "3" THEN "Combine" ELSE "Free For All"]

TeamLabel(p) ==
    LET team == IF Has(p, "teamIdx") THEN p["teamIdx"] ELSE "n/a"
    IN  IF team \in DOMAIN team_map THEN team_map[team] ELSE team

compact_player_line(p, name) ==
    "**" \o name \o "** - " \o TeamLabel(p) \o " - "
         \o NumOrNA(p, "health") \o "HP/" \o NumOrNA(p, "armor") \o "AR - "
         \o NumOrNA(p, "kills") \o "K/" \o NumOrNA(p, "deaths") \o "D - "
         \o NumOrNA(p, "ping") \o "ms - "
         \o (IF Truthy(p, "weapon") THEN p["weapon"] ELSE "none")

(***************************************************************************)
(* make_one_big_embed                                                      *)
(***************************************************************************)
\* entry.get("serverInfo", {})
ServerInfo(entry) == IF Has(entry, "serverInfo") THEN entry["serverInfo"] ELSE [k \in {} |-> ""]

ServerName(entry) ==
    IF Has(ServerInfo(entry), "name") THEN ServerInfo(entry)["name"] ELSE "unnamed"

ServerVersion(entry) ==
    IF Has(ServerInfo(entry), "version") THEN ServerInfo(entry)["version"] ELSE "unknown"

\* entry.get("players") or []
PlayersOf(entry) == IF Has(entry, "players") THEN entry["players"] ELSE <<>>

SummaryLine(n, version) == "Players: " \o ToString(n) \o " * version '" \o version \o "'"

RECURSIVE JoinRange(_, _, _)
\* "\n".join(lines[lo..hi]), by halves
JoinRange(lines, lo, hi) ==
    IF lo > hi THEN ""
    ELSE IF lo = hi THEN lines[lo]
    ELSE LET mid == (lo + hi) \div 2
         IN  JoinRange(lines, lo, mid) \o "\n" \o JoinRange(lines, mid + 1, hi)

\* "\n".join(lines)
JoinLines(lines) == JoinRange(lines, 1, Len(lines))

\* joined[:FIELD_VALUE_MAX - 30] + "\n... (truncated)" when joined is too long
Truncate(joined) ==
    IF Len(joined) > FIELD_VALUE_MAX
    THEN Prefix(joined, FIELD_VALUE_MAX - TRUNC_RESERVE) \o "\n... (truncated)"
    ELSE joined

\* the field_value of one entry (the body of the loop up to the packing test)
FieldValue(entry, map) ==
    LET players == PlayersOf(entry)
        version == ServerVersion(entry)
    IN  IF Len(players) = 0
        THEN SummaryLine(0, version)
        ELSE Truncate(JoinLines(
                 <<SummaryLine(Len(players), version)>> \o
                 [k \in 1..Len(players) |->
                     compact_player_line(players[k], choose_player_name(players[k], map))]))

\* mutant: the packing test forgets the length of the server name
Fits_m(total, name, value) ==
    ~(total + Len(value) + PACK_PADDING > EMBED_TOTAL_MAX)

\* the packing test: the block is added unless this sum exceeds the total cap
Fits(total, name, value) ==
    ~(total + Len(name) + Len(value) + PACK_PADDING > EMBED_TOTAL_MAX)

\* one iteration of the loop over all_data; acc holds the loop's locals, and
\* blocks records name, field_value and the outcome of the test per entry
PackStep(acc, entry, map) ==
    LET name  == ServerName(entry)
        value == FieldValue(entry, map)
    IN  IF Fits(acc.total_chars, name, value)
        THEN [acc EXCEPT
                !.fields = Append(@, [name |-> Prefix(name, FIELD_NAME_MAX), value |-> value]),
                !.total_chars = @ + Len(name) + Len(value),
                !.blocks = Append(@, [name |-> name, value |-> value, included |-> TRUE])]
        ELSE [acc EXCEPT
                !.servers_truncated = @ + 1,
                !.blocks = Append(@, [name |-> name, value |-> value, included |-> FALSE])]

RECURSIVE PackFrom(_, _, _, _)
PackFrom(acc, all_data, k, map) ==
    IF k > Len(all_data) THEN acc
    ELSE PackFrom(PackStep(acc, all_data[k], map), all_data, k + 1, map)

\* the locals after the loop
Pack(all_data, map) ==
    PackFrom([total_chars |-> Len(Title) + Len(Description),
              servers_truncated |-> 0,
              fields |-> <<>>,
              blocks |-> <<>>], all_data, 1, map)

NoticeValue(n) == "Truncated: " \o ToString(n) \o " server(s) omitted."

FooterText(total, showing) ==
    "Server list * " \o ToString(total) \o " total (showing " \o ToString(showing) \o ")."

\* the embed's fields once the Notice field is added
FinalFields(packed) ==
    IF packed.servers_truncated # 0
    THEN Append(packed.fields, [name |-> "Notice", value |-> NoticeValue(packed.servers_truncated)])
    ELSE packed.fields

make_one_big_embed(all_data, map) ==
    LET packed == Pack(all_data, map)
    IN  [title |-> Title,
         description |-> Description,
         fields |-> FinalFields(packed),
         footer |-> FooterText(Len(all_data), Len(FinalFields(packed)))]

RECURSIVE SumFields(_)
\* sum(len(f.name) + len(f.value) for f in embed.fields)
SumFields(fields) ==
    IF Len(fields) = 0 THEN 0
    ELSE Len(fields[1].name) + Len(fields[1].value) + SumFields(Tail(fields))

RECURSIVE SumValues(_)
SumValues(fields) ==
    IF Len(fields) = 0 THEN 0 ELSE Len(fields[1].value) + SumValues(Tail(fields))

\* mutant: the size check forgets the field names
approx_len_m(e) == Len(e.title) + Len(e.description) + SumValues(e.fields)

approx_len(e) == Len(e.title) + Len(e.description) + SumFields(e.fields)

(***************************************************************************)
(* fetch_server_data and resolve_steam_names: what they do with a response *)
(***************************************************************************)
(* Bounds of the inputs *)
MaxFill == 5
MaxTail == 2
BigPlayers == 18
CrowdPlayers == 101
BigNameLen == 176
WideNameLen == 300
LongVersionLen == 1100
MaxNameFields == 2

EmptyMap == [k \in {} |-> ""]

\* mutant: the body is returned whatever the status
fetch_server_data_m(r) ==
    IF r.error # "none" THEN <<>>
    ELSE IF r.parses THEN r.body ELSE <<>>

\* An HTTP exchange as the client sees it: error is "none", "network" or
\* "timeout", status the HTTP status, parses whether resp.json() succeeds,
\* body the decoded JSON value.
fetch_server_data(r) ==
    IF r.error # "none" THEN <<>>
    ELSE IF r.status = 200
         THEN IF r.parses THEN r.body ELSE <<>>
         ELSE <<>>

\* mutant: a chunk starts one element early, ids[max(i - 1, 0):i + CHUNK]
ChunkAt_m(idlist, i) == SubSeq(idlist, Max(1, i), Min(i + CHUNK, Len(idlist)))

\* ids[i:i + CHUNK], i counted from 0
ChunkAt(idlist, i) == SubSeq(idlist, i + 1, Min(i + CHUNK, Len(idlist)))

\* the positions of the response's players with steamid and personaname truthy
ValidProfiles(profiles) ==
    {k \in 1..Len(profiles) :
        Truthy(profiles[k], "steamid") /\ Truthy(profiles[k], "personaname")}

\* the for loop over the response's players: mapping[sid] = name, the last
\* assignment to a key standing
MergeProfiles(m, profiles) ==
    LET valid == ValidProfiles(profiles)
        last(s) == CHOOSE k \in valid :
                      /\ profiles[k]["steamid"] = s
                      /\ \A j \in valid : profiles[j]["steamid"] = s => j <= k
    IN  [s \in DOMAIN m \cup {profiles[k]["steamid"] : k \in valid} |->
            IF \E k \in valid : profiles[k]["steamid"] = s
            THEN profiles[last(s)]["personaname"]
            ELSE m[s]]

\* mutant: a failed exchange throws away what earlier batches resolved
BatchResult_m(m, r) ==
    IF r.error # "none" \/ r.status # 200 \/ ~r.parses THEN [k \in {} |-> ""]
    ELSE MergeProfiles(m, r.body)

\* the try block for one batch: a failed exchange leaves mapping as it was
BatchResult(m, r) ==
    IF r.error # "none" THEN m
    ELSE IF r.status # 200 THEN m
    ELSE IF ~r.parses THEN m
    ELSE MergeProfiles(m, r.body)

\* the handler's set comprehension over every player of every entry
CollectSteamIds(all_data) ==
    UNION {{SteamIdOf(PlayersOf(all_data[e])[k]) :
               k \in {j \in 1..Len(PlayersOf(all_data[e])) :
                         SteamIdOf(PlayersOf(all_data[e])[j]) # ""}} :
           e \in 1..Len(all_data)}

\* the identifiers of the inputs
Sid(n) == "765611980" \o ToString(10000000 + n)

AllSids == [n \in 1..CrowdPlayers + 1 |-> Sid(n)]

\* list(steam_ids): the set in some order (here the order of AllSids)
ListOf(S) == SelectSeq(AllSids, LAMBDA s : s \in S)

\* entry.get exists: the JSON value is an object
IsObject(v) == ~Has(v, "scalar")

(***************************************************************************)
(* Inputs: the payloads the data source can return, the answers of the     *)
(* lookup service, the player records and name maps.                       *)
(***************************************************************************)
RECURSIVE Rep(_)
\* a text of n characters
Rep(n) ==
    IF n = 0 THEN ""
    ELSE LET h == Rep(n \div 2) IN h \o h \o (IF n % 2 = 1 THEN "x" ELSE "")

Persona(sid) == "P" \o Suffix(sid, 3)

RosterPlayer(n) ==
    [steamId |-> Sid(n), teamIdx |-> IF n % 2 = 0 THEN "2" ELSE "3",
     health |-> 100, armor |-> 50, kills |-> n, deaths |-> 2, ping |-> 40,
     weapon |-> "weapon_crossbow"]

Roster(n) == [k \in 1..n |-> RosterPlayer(k)]

\* no players key, no version
EmptyServer == [serverInfo |-> [name |-> "SF Lobby"]]

\* no players, a very long version text
LongVerServer ==
    [serverInfo |-> [name |-> "SF Beta", version |-> Rep(LongVersionLen)], players |-> <<>>]

\* a full roster under a long server name
BigServer ==
    [serverInfo |-> [name |-> Rep(BigNameLen), version |-> "1.0"], players |-> Roster(BigPlayers)]

\* a full roster under a name longer than a field name may be
WideServer ==
    [serverInfo |-> [name |-> Rep(WideNameLen), version |-> "1.0"], players |-> Roster(BigPlayers)]

\* more players than one lookup batch holds
CrowdServer ==
    [serverInfo |-> [name |-> "SF Crowd", version |-> "1.0"], players |-> Roster(CrowdPlayers)]

\* one identifier carried by three records, and the other kinds of record
SmallServer ==
    [serverInfo |-> [name |-> "SF DM", version |-> "2.1"],
     players |-> <<[name |-> "alice", steamId |-> Sid(1), teamIdx |-> "0", kills |-> 4],
                   [steam_id |-> Sid(1), teamIdx |-> "2"],
                   [nick |-> "", steamId |-> Sid(1), steam_id |-> Sid(2), weapon |-> ""],
                   [userId |-> 7, teamIdx |-> "9"],
                   [ping |-> 30]>>]

Shapes == {EmptyServer, LongVerServer, BigServer, WideServer, SmallServer}

Tails == UNION {[1..m -> Shapes] : m \in 0..MaxTail}

Fill(n) == [k \in 1..n |-> BigServer]

\* a JSON array whose entries are not all objects
Misshapen == {<<[scalar |-> 5]>>, <<SmallServer, [scalar |-> 5]>>}

\* the crowd alone or after one other server
Crowded == {t \o <<CrowdServer>> : t \in {<<>>} \cup {<<s>> : s \in Shapes}}

Payloads == {Fill(n) \o t : n \in 0..MaxFill, t \in Tails} \cup Crowded \cup Misshapen

Exchange(error, status, parses, body) ==
    [error |-> error, status |-> status, parses |-> parses, body |-> body]

NoExchange == Exchange("unsent", 0, FALSE, <<>>)

FetchFailures ==
    {Exchange("none", 503, TRUE, <<SmallServer>>),
     Exchange("network", 0, FALSE, <<>>),
     Exchange("timeout", 0, FALSE, <<>>),
     Exchange("none", 200, FALSE, <<>>)}

FetchExchanges == {Exchange("none", 200, TRUE, b) : b \in Payloads} \cup FetchFailures

\* the identifiers the lookup service knows
KnownToService(sid) == sid \in {Sid(n) : n \in {k \in 1..CrowdPlayers + 1 : k % 2 = 1}}

Profile(sid) == [steamid |-> sid, personaname |-> Persona(sid)]

Profiles(chunk) == [k \in 1..Len(chunk) |-> Profile(chunk[k])]

KnownProfiles(chunk) == SelectSeq(Profiles(chunk), LAMBDA pr : KnownToService(pr.steamid))

LookupExchanges(chunk) ==
    {Exchange("none", 200, TRUE, Profiles(chunk)),
     Exchange("none", 200, TRUE, KnownProfiles(chunk)),
     Exchange("none", 429, FALSE, <<>>),
     Exchange("timeout", 0, FALSE, <<>>)}

(***************************************************************************)
(* State                                                                   *)
(***************************************************************************)
VARIABLES
    pc,             \* where the handler (or the name check) stands
    STEAM_API_KEY,  \* the lookup credential, "" when not configured
    deferred,       \* interaction.response.defer() was awaited
    resp,           \* the exchange fetch_server_data saw
    data,           \* what fetch_server_data returned
    steam_ids,      \* the handler's set of identifiers
    ids,            \* list(steam_ids) inside resolve_steam_names
    i,              \* the loop index of resolve_steam_names
    mapping,        \* resolve_steam_names' mapping so far
    lookups,        \* the lookup requests sent, each with the exchange seen
    steam_map,      \* what resolve_steam_names returned
    packed,         \* the locals of make_one_big_embed after its loop
    embed,          \* the embed make_one_big_embed returned
    approx,         \* approx_len
    replies,        \* the follow-up messages sent
    player,         \* choose_player_name's p
    names,          \* choose_player_name's steam_map
    chosen          \* choose_player_name's result

vars == <<pc, STEAM_API_KEY, deferred, resp, data, steam_ids, ids, i, mapping, lookups,
          steam_map, packed, embed, approx, replies, player, names, chosen>>

NoEmbed == [title |-> "", description |-> "", fields |-> <<>>, footer |-> ""]

NoPack == [total_chars |-> 0, servers_truncated |-> 0, fields |-> <<>>, blocks |-> <<>>]

NoPlayer == [k \in {} |-> ""]

TextReply(text) == [content |-> text, hasEmbed |-> FALSE, embed |-> NoEmbed, file |-> ""]

EmbedReply(e) == [content |-> "", hasEmbed |-> TRUE, embed |-> e, file |-> "icon.png"]

HandlerIdle ==
    /\ deferred = FALSE
    /\ resp = NoExchange
    /\ data = <<>>
    /\ steam_ids = {}
    /\ ids = <<>>
    /\ i = 0
    /\ mapping = EmptyMap
    /\ lookups = <<>>
    /\ steam_map = EmptyMap
    /\ packed = NoPack
    /\ embed = NoEmbed
    /\ approx = 0
    /\ replies = <<>>

Init ==
    /\ pc = "invoked"
    /\ STEAM_API_KEY \in {"", "KEY"}
    /\ HandlerIdle
    /\ player = NoPlayer
    /\ names = EmptyMap
    /\ chosen = ""

(***************************************************************************)
(* The /servers handler                                                    *)
(***************************************************************************)
NameVars == <<player, names, chosen>>

\* await interaction.response.defer()
Defer ==
    /\ pc = "invoked"
    /\ deferred' = TRUE
    /\ pc' = "deferred"
    /\ UNCHANGED <<STEAM_API_KEY, resp, data, steam_ids, ids, i, mapping, lookups,
                   steam_map, packed, embed, approx, replies, NameVars>>

\* data = await fetch_server_data(API_URL)
Fetch ==
    /\ pc = "deferred"
    /\ \E r \in FetchExchanges :
          /\ resp' = r
          /\ data' = fetch_server_data(r)
    /\ pc' = "fetched"
    /\ UNCHANGED <<STEAM_API_KEY, deferred, steam_ids, ids, i, mapping, lookups,
                   steam_map, packed, embed, approx, replies, NameVars>>

\* if not data: send the "no data" message and return
ReplyNoData ==
    /\ pc = "fetched"
    /\ Len(data) = 0
    /\ replies' = Append(replies, TextReply(NoDataMessage))
    /\ pc' = "done"
    /\ UNCHANGED <<STEAM_API_KEY, deferred, resp, data, steam_ids, ids, i, mapping, lookups,
                   steam_map, packed, embed, approx, NameVars>>

\* The set comprehension and the entry of resolve_steam_names.  entry.get on
\* a value that is no object raises AttributeError, which nothing catches.
CollectIds ==
    /\ pc = "fetched"
    /\ Len(data) # 0
    /\ IF \E e \in 1..Len(data) : ~IsObject(data[e])
       THEN /\ pc' = "raised"
            /\ UNCHANGED <<steam_ids, ids, i, mapping, steam_map>>
       ELSE /\ steam_ids' = CollectSteamIds(data)
            /\ IF steam_ids' = {} \/ STEAM_API_KEY = ""
               THEN /\ steam_map' = EmptyMap
                    /\ pc' = "resolved"
                    /\ UNCHANGED <<ids, i, mapping>>
               ELSE /\ ids' = ListOf(steam_ids')
                    /\ i' = 0
                    /\ mapping' = EmptyMap
                    /\ pc' = "lookup"
                    /\ UNCHANGED steam_map
    /\ UNCHANGED <<STEAM_API_KEY, deferred, resp, data, lookups, packed, embed, approx,
                   replies, NameVars>>

\* One iteration of the loop of resolve_steam_names: the request for the
\* chunk at i and whatever comes back; after the last chunk the function
\* returns mapping.
LookupBatch ==
    /\ pc = "lookup"
    /\ i < Len(ids)
    /\ \E r \in LookupExchanges(ChunkAt(ids, i)) :
          /\ lookups' = Append(lookups, [chunk |-> ChunkAt(ids, i), resp |-> r])
          /\ mapping' = BatchResult(mapping, r)
    /\ i' = i + CHUNK
    /\ IF i' < Len(ids)
       THEN /\ pc' = "lookup"
            /\ UNCHANGED steam_map
       ELSE /\ pc' = "resolved"
            /\ steam_map' = mapping'
    /\ UNCHANGED <<STEAM_API_KEY, deferred, resp, data, steam_ids, ids, packed, embed,
                   approx, replies, NameVars>>

\* embed = make_one_big_embed(data, steam_map); approx_len = ...
\* (discord.File("icon.png") finds the icon: a deployment precondition)
Render ==
    /\ pc = "resolved"
    /\ packed' = Pack(data, steam_map)
    /\ embed' = make_one_big_embed(data, steam_map)
    /\ approx' = approx_len(embed')
    /\ pc' = "built"
    /\ UNCHANGED <<STEAM_API_KEY, deferred, resp, data, steam_ids, ids, i, mapping, lookups,
                   steam_map, replies, NameVars>>

\* if approx_len > EMBED_TOTAL_MAX: send the "too large" message and return
ReplyTooLarge ==
    /\ pc = "built"
    /\ approx > EMBED_TOTAL_MAX
    /\ replies' = Append(replies, TextReply(TooLargeMessage))
    /\ pc' = "done"
    /\ UNCHANGED <<STEAM_API_KEY, deferred, resp, data, steam_ids, ids, i, mapping, lookups,
                   steam_map, packed, embed, approx, NameVars>>

\* await interaction.followup.send(embed=embed, file=file)
ReplyEmbed ==
    /\ pc = "built"
    /\ ~(approx > EMBED_TOTAL_MAX)
    /\ replies' = Append(replies, EmbedReply(embed))
    /\ pc' = "done"
    /\ UNCHANGED <<STEAM_API_KEY, deferred, resp, data, steam_ids, ids, i, mapping, lookups,
                   steam_map, packed, embed, approx, NameVars>>

Next ==
    \/ Defer
    \/ Fetch
    \/ ReplyNoData
    \/ CollectIds
    \/ LookupBatch
    \/ Render
    \/ ReplyTooLarge
    \/ ReplyEmbed

Spec == Init /\ [][Next]_vars

(***************************************************************************)
(* choose_player_name on its own: every record and name map of the bounded *)
(* input sets.                                                             *)
(***************************************************************************)
\* the value a record holds under its k-th name key
LocalName(k) == "N" \o ToString(k)

\* a record with the name keys at present (those at blank are ""), and the
\* identifier and userId keys of extra
RecordOf(present, blank, extra) ==
    [key \in {NameKeys[k] : k \in present} |->
        LET k == CHOOSE j \in present : NameKeys[j] = key
        IN  IF k \in blank THEN "" ELSE LocalName(k)] @@ extra

IdentifierFields ==
    {NoPlayer,
     [steamId |-> Sid(1)],
     [steamId |-> "42"],
     [steamId |-> ""],
     [steam_id |-> Sid(2)],
     [steamId |-> "", steam_id |-> Sid(2)],
     [steamId |-> Sid(1), steam_id |-> Sid(2)]}

UserIdFields == {NoPlayer, [userId |-> 7]}

PlayerRecords ==
    {RecordOf(present, blank, idf @@ uf) :
        present \in {S \in SUBSET (1..Len(NameKeys)) : Cardinality(S) <= MaxNameFields},
        blank \in SUBSET (1..Len(NameKeys)),
        idf \in IdentifierFields,
        uf \in UserIdFields}

\* the maps resolve_steam_names can return: every value is a non-empty name
NameMaps == {[s \in S |-> Persona(s)] : S \in SUBSET {Sid(1), Sid(2), "42"}}

InitName ==
    /\ pc = "name_input"
    /\ STEAM_API_KEY = ""
    /\ HandlerIdle
    /\ player \in PlayerRecords
    /\ names \in NameMaps
    /\ chosen = ""

\* pname = choose_player_name(p, steam_map)
ChooseName ==
    /\ pc = "name_input"
    /\ chosen' = choose_player_name(player, names)
    /\ pc' = "name_chosen"
    /\ UNCHANGED <<STEAM_API_KEY, deferred, resp, data, steam_ids, ids, i, mapping, lookups,
                   steam_map, packed, embed, approx, replies, player, names>>

NextName == ChooseName

SpecName == InitName /\ [][NextName]_vars

(***************************************************************************)
(* Properties                                                              *)
(***************************************************************************)
RECURSIVE FieldChars(_, _)
\* the characters of the names and values of the fields from position k on
FieldChars(fields, k) ==
    IF k > Len(fields) THEN 0
    ELSE Len(fields[k].name) + Len(fields[k].value) + FieldChars(fields, k + 1)

\* the size of a document: title, description and every field, Notice included
DocSize(e) == Len(e.title) + Len(e.description) + FieldChars(e.fields, 1)

Rendered == pc \in {"built", "done"} /\ embed # NoEmbed

IncludedBlocks == SelectSeq(packed.blocks, LAMBDA b : b.included)

\* C1: the handler sends the embed only if title + description + every
\* field's name and value (Notice included) is at most 6000 characters, and
\* otherwise sends only the fixed "too large" message, never the embed.
C1_SizeGate ==
    /\ \A k \in 1..Len(replies) : replies[k].hasEmbed => DocSize(replies[k].embed) <= 6000
    /\ (pc = "done" /\ embed # NoEmbed) =>
          IF DocSize(embed) <= 6000
          THEN replies = <<EmbedReply(embed)>>
          ELSE replies = <<TextReply("Result too large for a single embed.")>>

C1_Witness ==
    /\ pc = "done"
    /\ embed # NoEmbed
    /\ DocSize(embed) > 6000
    /\ replies = <<TextReply("Result too large for a single embed.")>>

\* C2: the field value make_one_big_embed builds for a server, whatever its
\* number of players and the length of its version, has at most 1024
\* characters.
C2_FieldValueCap ==
    \A k \in 1..Len(packed.blocks) : Len(packed.blocks[k].value) <= 1024

\* C3: every invocation defers first and then, on every path, ends with
\* exactly one follow-up reply: the embed, the "no data" message or the
\* "too large" message.
C3_ExactlyOneReply ==
    /\ Len(replies) <= 1
    /\ replies # <<>> => deferred
    /\ pc \in {"done", "raised"} =>
          /\ deferred
          /\ Len(replies) = 1
          /\ \/ replies[1] = EmbedReply(embed)
             \/ replies[1] = TextReply("No servers available or failed to fetch data.")
             \/ replies[1] = TextReply("Result too large for a single embed.")

FetchFailed ==
    \/ resp.error \in {"network", "timeout"}
    \/ resp.error = "none" /\ (resp.status # 200 \/ ~resp.parses)

\* C4: after a non-200 status, a network error, a timeout or a body that does
\* not parse, fetch_server_data returns the empty sequence without raising,
\* and the handler replies exactly the "no data" message, with no lookup
\* request and no embed built.
C4_FetchFailureIsNoData ==
    (pc \notin {"invoked", "deferred"} /\ FetchFailed) =>
        /\ data = <<>>
        /\ pc \in {"fetched", "done"}
        /\ lookups = <<>>
        /\ embed = NoEmbed
        /\ packed = NoPack
        /\ pc = "fetched" => replies = <<>>
        /\ pc = "done" =>
              replies = <<TextReply("No servers available or failed to fetch data.")>>

C4_Witness ==
    /\ pc = "done"
    /\ resp.error = "none"
    /\ resp.status # 200
    /\ resp.body # <<>>
    /\ replies = <<TextReply("No servers available or failed to fetch data.")>>

\* the name keys of the record that hold a non-empty value, as positions in
\* the claim's order
ClaimOrder == <<"name", "playerName", "nick", "username", "displayName", "persona", "personaname">>

LocalNamed == {k \in 1..7 : ClaimOrder[k] \in DOMAIN player /\ player[ClaimOrder[k]] # ""}

Identifier ==
    IF "steamId" \in DOMAIN player /\ player["steamId"] # "" THEN player["steamId"]
    ELSE IF "steam_id" \in DOMAIN player /\ player["steam_id"] # "" THEN player["steam_id"]
    ELSE ""

\* C5: choose_player_name returns a non-empty string by fixed precedence: the
\* first non-empty local name field in the order name, playerName, nick,
\* username, displayName, persona, personaname; else the name map's entry
\* for the record's identifier; else "steam:" and the identifier's last 8
\* characters; else "#" and userId; else "Unknown".
C5_NamePrecedence ==
    pc = "name_chosen" =>
        /\ chosen # ""
        /\ IF LocalNamed # {}
           THEN chosen = player[ClaimOrder[CHOOSE k \in LocalNamed : \A j \in LocalNamed : k <= j]]
           ELSE IF Identifier # ""
           THEN IF Identifier \in DOMAIN names
                THEN chosen = names[Identifier]
                ELSE chosen = "steam:" \o SubSeq(Identifier,
                                                 IF Len(Identifier) > 8 THEN Len(Identifier) - 7 ELSE 1,
                                                 Len(Identifier))
           ELSE IF "userId" \in DOMAIN player
           THEN chosen = "#" \o ToString(player["userId"])
           ELSE chosen = "Unknown"

\* a local name wins over a name the map resolves
C5_Witness ==
    /\ pc = "name_chosen"
    /\ LocalNamed # {}
    /\ Identifier \in DOMAIN names
    /\ chosen \in {LocalName(k) : k \in 1..7}

\* the distinct identifiers the player records of all_data carry
Carried(all_data) ==
    UNION {{SteamIdOf(all_data[e]["players"][k]) : k \in 1..Len(all_data[e]["players"])} :
           e \in {f \in 1..Len(all_data) : "players" \in DOMAIN all_data[f]}} \ {""}

\* the lookup requests whose batch holds s
BatchesWith(s) ==
    {b \in 1..Len(lookups) : \E j \in 1..Len(lookups[b].chunk) : lookups[b].chunk[j] = s}

\* C6: within one execution every distinct identifier goes to the lookup
\* service in exactly one batch when a credential is configured (batches of
\* at most 100, pairwise disjoint, covering the set), and in no request when
\* the credential is absent or no record carries an identifier.
C6_OneLookupPerIdentifier ==
    lookups # <<>> \/ pc \in {"resolved", "built", "done"} =>
        LET carried == Carried(data)
        IN  /\ \A s \in carried : Cardinality(BatchesWith(s)) <= 1
            /\ \A b \in 1..Len(lookups) :
                  /\ Len(lookups[b].chunk) <= 100
                  /\ \A j \in 1..Len(lookups[b].chunk) :
                        /\ lookups[b].chunk[j] \in carried
                        /\ \A h \in 1..Len(lookups[b].chunk) :
                              lookups[b].chunk[h] = lookups[b].chunk[j] => h = j
            /\ pc \in {"resolved", "built", "done"} =>
                  IF STEAM_API_KEY # "" /\ carried # {}
                  THEN \A s \in carried : Cardinality(BatchesWith(s)) = 1
                  ELSE lookups = <<>>

\* the identifier three records of one server share is looked up once, in
\* one of two batches
C6_Witness ==
    /\ pc = "resolved"
    /\ STEAM_API_KEY # ""
    /\ Len(lookups) = 2
    /\ \E e \in 1..Len(data) : data[e] = SmallServer
    /\ Cardinality(BatchesWith(Sid(1))) = 1

Succeeded(l) == l.resp.error = "none" /\ l.resp.status = 200 /\ l.resp.parses

\* the id-to-name pairs the successful batches returned
ReturnedPairs ==
    UNION {{<<lookups[b].resp.body[k]["steamid"], lookups[b].resp.body[k]["personaname"]>> :
               k \in 1..Len(lookups[b].resp.body)} :
           b \in {c \in 1..Len(lookups) : Succeeded(lookups[c])}}

C8_FooterCounts ==
    Rendered =>
        embed.footer = "Server list * " \o ToString(Len(data)) \o " total (showing "
                           \o ToString(Len(IncludedBlocks)) \o ")."

\* C9: whenever at least one server block is omitted, the reply is the embed,
\* with a Notice block stating the omitted count and a total size of at most
\* 6000: the handler's size check never rejects a packed document.
C9_PackedDocumentIsSent ==
    (pc = "done" /\ embed # NoEmbed /\ packed.servers_truncated > 0) =>
        /\ replies = <<EmbedReply(embed)>>
        /\ embed.fields[Len(embed.fields)] =
              [name |-> "Notice",
               value |-> "Truncated: " \o ToString(packed.servers_truncated) \o " server(s) omitted."]
        /\ DocSize(embed) <= 6000

RECURSIVE RunningTotal(_)
\* the running total before block k: title + description + name and value
\* of every included block before k
RunningTotal(k) ==
    IF k <= 1 THEN Len(embed.title) + Len(embed.description)
    ELSE RunningTotal(k - 1) +
         (IF packed.blocks[k - 1].included
          THEN Len(packed.blocks[k - 1].name) + Len(packed.blocks[k - 1].value)
          ELSE 0)

\* C10: the packing pass visits the blocks in fetch order; a block is included
\* exactly when running total + len(name) + len(value) + 10 <= 6000,
\* otherwise the omitted counter grows and the pass goes on; included blocks
\* keep their order and included + omitted = number of fetched servers.
C10_PackingPass ==
    Rendered =>
        /\ Len(packed.blocks) = Len(data)
        /\ \A k \in 1..Len(data) :
              /\ packed.blocks[k].name = ServerName(data[k])
              /\ packed.blocks[k].included <=>
                    RunningTotal(k) + Len(packed.blocks[k].name)
                        + Len(packed.blocks[k].value) + 10 <= 6000
        /\ packed.total_chars = RunningTotal(Len(data) + 1)
        /\ Len(IncludedBlocks) + packed.servers_truncated = Len(data)
        /\ Len(packed.fields) = Len(IncludedBlocks)
        /\ \A j \in 1..Len(IncludedBlocks) :
              /\ packed.fields[j].value = IncludedBlocks[j].value
              /\ packed.fields[j].name =
                    SubSeq(IncludedBlocks[j].name, 1,
                           IF Len(IncludedBlocks[j].name) > 256 THEN 256
                           ELSE Len(IncludedBlocks[j].name))

\* a block that fits is included after an earlier one was skipped
C10_Witness ==
    /\ pc = "done"
    /\ \E k \in 1..Len(packed.blocks) : \E j \in 1..Len(packed.blocks) :
          /\ k < j
          /\ ~packed.blocks[k].included
          /\ packed.blocks[j].included

=============================================================================
